---- MODULE Spec2Model ----
(***************************************************************************)
(* Model of contrib/electrum-plugin/bwt.py: the Electrum plugin that       *)
(* supervises the bwt daemon.  The host thread runs __init__, start, stop, *)
(* load_wallet, close_wallet and close; every spawned daemon has a log     *)
(* thread (proc_logger) draining its stdout and calling handle_log, which  *)
(* calls set_server when the readiness line shows up.                      *)
(*                                                                         *)
(* Python str and bytes values that the code formats, splits or scans are  *)
(* sequences of one-character strings, so that partition, strip, split,    *)
(* lower, startswith and '%s:%s' are computed as Python computes them.     *)
(* None is the string "None"; Python's True/False config values that may   *)
(* also be None are "True"/"False".                                        *)
(***************************************************************************)
EXTENDS Integers, Sequences, FiniteSets, TLC

None == "None"

(***************************************************************************)
(* Bounds of the model.                                                    *)
(***************************************************************************)
\* number of daemon processes spawned in one behaviour
MaxSpawns == 2
\* number of lines the daemons write to their stdout in one behaviour
MaxLines == 2
\* largest bwt_verbose value tried
MaxVerbose == 1

(***************************************************************************)
(* String literals of the source.                                          *)
(***************************************************************************)
\* 'Electrum RPC server running'
ReadyMarker ==
    <<"E","l","e","c","t","r","u","m"," ","R","P","C"," ","s","e","r","v","e","r"," ","r","u","n","n","i","n","g">>
\* 'error: '
ErrorPrefix ==
    <<"e","r","r","o","r",":"," ">>
\* 'ERROR'
S_ERROR ==
    <<"E","R","R","O","R">>
\* 'INFO'
S_INFO ==
    <<"I","N","F","O">>
\* 'bwt'
S_bwt ==
    <<"b","w","t">>
\* '--network'
S_network ==
    <<"-","-","n","e","t","w","o","r","k">>
\* '--bitcoind-url'
S_bitcoind_url ==
    <<"-","-","b","i","t","c","o","i","n","d","-","u","r","l">>
\* '--bitcoind-dir'
S_bitcoind_dir ==
    <<"-","-","b","i","t","c","o","i","n","d","-","d","i","r">>
\* '--electrum-rpc-addr'
S_electrum_rpc_addr ==
    <<"-","-","e","l","e","c","t","r","u","m","-","r","p","c","-","a","d","d","r">>
\* '127.0.0.1:'
S_loopback ==
    <<"1","2","7",".","0",".","0",".","1",":">>
\* '--bitcoind-cred'
S_bitcoind_cred ==
    <<"-","-","b","i","t","c","o","i","n","d","-","c","r","e","d">>
\* '--bitcoind-wallet'
S_bitcoind_wallet ==
    <<"-","-","b","i","t","c","o","i","n","d","-","w","a","l","l","e","t">>
\* '--unix-listener-path'
S_unix_listener_path ==
    <<"-","-","u","n","i","x","-","l","i","s","t","e","n","e","r","-","p","a","t","h">>
\* '--xpub'
S_xpub ==
    <<"-","-","x","p","u","b">>
\* '-v'
S_v ==
    <<"-","v">>
\* 'bitcoin'
S_bitcoin ==
    <<"b","i","t","c","o","i","n">>
\* 'testnet'
S_testnet ==
    <<"t","e","s","t","n","e","t">>
\* 'regtest'
S_regtest ==
    <<"r","e","g","t","e","s","t">>
\* a key root: 'xpubA'
Xpub1 ==
    <<"x","p","u","b","A">>
\* 'xpubB'
Xpub2 ==
    <<"x","p","u","b","B">>
\* 'xpubC'
Xpub3 ==
    <<"x","p","u","b","C">>
\* a bwt_bitcoind_url value
Url ==
    <<"h","t","t","p",":","/","/","l","o","c","a","l","h","o","s","t",":","8","3","3","2","/">>
\* a bwt_bitcoind_dir value
Dir ==
    <<"/","h","o","m","e","/","u","/",".","b","i","t","c","o","i","n">>
\* a bwt_bitcoind_cred value
Cred ==
    <<"u",":","p">>
\* a bwt_bitcoind_wallet value
BitcoindWallet ==
    <<"b","w","t">>
\* a bwt_socket_path value
SocketPath ==
    <<"/","p","/","b","w","t","-","s","o","c","k","e","t">>
\* the default of bwt_rescan_since
RescanAll ==
    <<"a","l","l">>
\* a bwt_custom_opt value with two tokens, one of them '-v'
CustomOpt ==
    <<"-","-","n","o","-","s","t","a","r","t","u","p","-","b","a","n","n","e","r"," ","-","v">>
\* 'INFO bwt::electrum > Electrum RPC server running on 127.0.0.1\n'
LineReady ==
    <<"I","N","F","O"," ","b","w","t",":",":","e","l","e","c","t","r","u","m"," ",">"," ","E","l","e","c","t","r","u","m"," ","R","P","C"," ","s","e","r","v","e","r"," ","r","u","n","n","i","n","g"," ","o","n"," ","1","2","7",".","0",".","0",".","1","\n">>
\* 'Electrum RPC server running\n'
LineReadyBare ==
    <<"E","l","e","c","t","r","u","m"," ","R","P","C"," ","s","e","r","v","e","r"," ","r","u","n","n","i","n","g","\n">>
\* 'DBG 12:00:00 electrs_like::sync > synced to height 100\n'
LineSync ==
    <<"D","B","G"," ","1","2",":","0","0",":","0","0"," ","e","l","e","c","t","r","s","_","l","i","k","e",":",":","s","y","n","c"," ",">"," ","s","y","n","c","e","d"," ","t","o"," ","h","e","i","g","h","t"," ","1","0","0","\n">>
\* 'Error: failed to connect\n'
LineError ==
    <<"E","r","r","o","r",":"," ","f","a","i","l","e","d"," ","t","o"," ","c","o","n","n","e","c","t","\n">>
\* '\n'
LineBlank ==
    <<"\n">>

(***************************************************************************)
(* Python string operations used by the source.                            *)
(***************************************************************************)
Whitespace == {" ", "\n", "\t", "\r"}

UpperCase ==
    <<"A","B","C","D","E","F","G","H","I","J","K","L","M","N","O","P","Q","R","S","T","U","V","W","X","Y","Z">>

LowerCase ==
    <<"a","b","c","d","e","f","g","h","i","j","k","l","m","n","o","p","q","r","s","t","u","v","w","x","y","z">>

Digits ==
    <<"0","1","2","3","4","5","6","7","8","9">>

\* str.lower()
lower(s) ==
    [i \in 1..Len(s) |->
        IF \E k \in 1..26 : UpperCase[k] = s[i]
        THEN LowerCase[CHOOSE k \in 1..26 : UpperCase[k] = s[i]]
        ELSE s[i]]

RECURSIVE lstrip(_)
lstrip(s) ==
    IF s # <<>> /\ Head(s) \in Whitespace THEN lstrip(Tail(s)) ELSE s

RECURSIVE rstrip(_)
rstrip(s) ==
    IF s # <<>> /\ s[Len(s)] \in Whitespace THEN rstrip(SubSeq(s, 1, Len(s) - 1)) ELSE s

\* str.strip()
strip(s) == rstrip(lstrip(s))

\* str.startswith(prefix)
startswith(s, prefix) ==
    Len(s) >= Len(prefix) /\ SubSeq(s, 1, Len(prefix)) = prefix

\* str.find(sub), 1-based; 0 when sub does not occur
find(s, sub) ==
    LET at == {i \in 1..(Len(s) - Len(sub) + 1) : SubSeq(s, i, i + Len(sub) - 1) = sub}
    IN  IF at = {} THEN 0 ELSE CHOOSE i \in at : \A j \in at : i <= j

\* sub in s
contains(s, sub) == find(s, sub) # 0

\* str.partition(sep): <<before, sep, after>>, or <<s, '', ''>> without sep
partition(s, sep) ==
    LET i == find(s, sep)
    IN  IF i = 0
        THEN <<s, <<>>, <<>>>>
        ELSE <<SubSeq(s, 1, i - 1), sep, SubSeq(s, i + Len(sep), Len(s))>>

\* str.split(sep)
RECURSIVE split(_, _)
split(s, sep) ==
    LET i == find(s, sep)
    IN  IF i = 0
        THEN <<s>>
        ELSE <<SubSeq(s, 1, i - 1)>> \o split(SubSeq(s, i + Len(sep), Len(s)), sep)

\* '%d' % n for n >= 0
RECURSIVE format_d(_)
format_d(n) ==
    IF n < 10 THEN <<Digits[n + 1]>> ELSE format_d(n \div 10) \o <<Digits[(n % 10) + 1]>>

\* 'ERROR: disk full\n'
LineErrorUpper ==
    <<"E","R","R","O","R",":"," ","d","i","s","k"," ","f","u","l","l","\n">>
\* 'error log rotated\n': 'error' without the colon
LinePlain ==
    <<"e","r","r","o","r"," ","l","o","g"," ","r","o","t","a","t","e","d","\n">>

\* a byte that is not valid UTF-8
BadByte == "0xff"

\* a line that is not valid UTF-8
LineBad == <<BadByte, "\n">>

\* bytes.decode('utf-8') succeeds
decodable(b) == \A i \in 1..Len(b) : b[i] # BadByte

\* the permutations of a finite set, as sequences: the orders in which a
\* Python set may be iterated
Orders(S) ==
    {f \in [1..Cardinality(S) -> S] : \A i, j \in 1..Cardinality(S) : f[i] = f[j] => i = j}

\* list.extend over a sequence of lists
RECURSIVE Flatten(_)
Flatten(ss) ==
    IF ss = <<>> THEN <<>> ELSE Head(ss) \o Flatten(Tail(ss))


(***************************************************************************)
(* Inputs: the wallets the host may load, the ports the OS may hand out,   *)
(* the configurations the plugin may be constructed with, the lines a      *)
(* daemon may print.                                                       *)
(***************************************************************************)
\* w1 and w2 are two wallets with the same key root (two files of one seed),
\* w3 is a multisig wallet with two roots, w4 has no master public key
Wallets == {"w1", "w2", "w3", "w4"}

get_master_public_keys(w) ==
    CASE w = "w1" -> <<Xpub1>>
      [] w = "w2" -> <<Xpub1>>
      [] w = "w3" -> <<Xpub2, Xpub3>>
      [] OTHER    -> <<>>

Ports == {49152, 49153}

\* config values that are True, False or None
Tri == {None, "True", "False"}

\* constants.net with the optional settings: none set (None and '' are both
\* falsy: <<>>), the credentials set, or all set
Options ==
    { [net |-> "BitcoinMainnet", bwt_bitcoind_cred |-> <<>>, bwt_bitcoind_wallet |-> <<>>,
       bwt_socket_path |-> <<>>, bwt_custom_opt |-> <<>>],
      [net |-> "BitcoinTestnet", bwt_bitcoind_cred |-> Cred, bwt_bitcoind_wallet |-> <<>>,
       bwt_socket_path |-> <<>>, bwt_custom_opt |-> <<>>],
      [net |-> "BitcoinRegtest", bwt_bitcoind_cred |-> Cred, bwt_bitcoind_wallet |-> BitcoindWallet,
       bwt_socket_path |-> SocketPath, bwt_custom_opt |-> CustomOpt] }

\* constants.net, the host configuration before the plugin is constructed,
\* the wallets the user can open, the lines the daemon binary prints and
\* the ports free_port() may return
Setting(e, o, v, one, was, files, lines, ports) ==
    [env |-> [net |-> o.net, wallet_files |-> files, daemon_lines |-> lines,
              free_ports |-> ports],
     config |->
      [bwt_enabled |-> e, bwt_bitcoind_url |-> Url, bwt_bitcoind_dir |-> Dir,
       bwt_bitcoind_wallet |-> o.bwt_bitcoind_wallet, bwt_bitcoind_cred |-> o.bwt_bitcoind_cred,
       bwt_rescan_since |-> RescanAll, bwt_custom_opt |-> o.bwt_custom_opt,
       bwt_socket_path |-> o.bwt_socket_path, bwt_verbose |-> v,
       oneserver |-> one, bwt_was_oneserver |-> was]]

PlainOptions == CHOOSE o \in Options : o.net = "BitcoinMainnet"

\* the environments of the host-thread specification: every wallet, and
\* either every single-server setting or every daemon option
HostEnvironments ==
    {Setting(e, PlainOptions, 0, one, was, Wallets, {}, Ports) :
        e \in BOOLEAN, one \in Tri, was \in Tri}
    \cup {Setting(TRUE, o, v, "False", None, Wallets, {}, Ports) :
        o \in Options, v \in 0..MaxVerbose}

\* the environments of the specification with the daemons and log threads:
\* one wallet, one free port, a daemon that prints readiness and blank
\* lines or one that prints undecodable lines
Environments ==
    {Setting(e, PlainOptions, 0, "False", None, {"w1"}, {LineReady, LineBlank}, {49152}) :
        e \in BOOLEAN}
    \cup {Setting(TRUE, PlainOptions, 0, "False", None, {"w1"}, {LineBad}, {49152})}


\* lines '<level> <timestamp> <source> > <message>', by their parts
StructuredParts ==
    { [level |-> <<"D","B","G">>,
       timestamp |-> <<"1","2",":","0","0",":","0","0">>,
       source |-> <<"e","l","e","c","t","r","s","_","l","i","k","e",":",":","s","y","n","c">>,
       message |-> <<"s","y","n","c","e","d"," ","t","o"," ","h","e","i","g","h","t"," ","1","0","0">>],
      [level |-> <<"W","A","R","N">>,
       timestamp |-> <<"2","0","2","0","-","0","5","-","0","1","T","1","0",":","0","0",":","0","0","Z">>,
       source |-> <<"b","w","t",":",":","i","n","d","e","x","e","r">>,
       message |-> <<"r","e","o","r","g"," ",">"," ","d","e","p","t","h"," ","2">>] }

FormatStructured(r) ==
    r.level \o <<" ">> \o r.timestamp \o <<" ">> \o r.source \o <<" ", ">", " ">>
        \o r.message \o <<"\n">>

\* the lines of the specification of the log thread's parsing
ParseLines ==
    {FormatStructured(r) : r \in StructuredParts}
    \cup {LineSync, LineReady, LineReadyBare, LineError, LineErrorUpper, LinePlain, LineBlank, LineBad}

\* the environment of the specification of the log thread's parsing: one
\* daemon, printing any of ParseLines
ParseEnvironments ==
    {Setting(TRUE, PlainOptions, 0, "False", None, {"w1"}, ParseLines, {49152})}

(***************************************************************************)
(* State.                                                                  *)
(***************************************************************************)
VARIABLES
    constructed,  \* BwtPlugin.__init__ has run
    env,          \* constants.net, the wallets the user can open, the lines the
                  \* daemon binary prints, the ports free_port() may return
    config,       \* the host's config object (config.get / config.set_key)
    self,         \* the attributes of the BwtPlugin object
    procs,        \* the daemon processes spawned so far; a Popen handle is an index
    argv,         \* the argument list of the latest subprocess.Popen call
    network,      \* the parameters of Network.get_instance()
    emitted,      \* lines written by the daemons so far
    last          \* the operation that made the last step

vars == <<constructed, env, config, self, procs, argv, network, emitted, last>>

\* self.proc / self.thread / self.rpc_port holding None (or not yet assigned)
NoHandle == 0

\* the state the host-thread operations read and write
World == [self |-> self, config |-> config, procs |-> procs, argv |-> argv]

(***************************************************************************)
(* Module-level functions.                                                 *)
(***************************************************************************)
get_network_name(n) ==
    CASE n = "BitcoinMainnet" -> S_bitcoin
      [] n = "BitcoinTestnet" -> S_testnet
      [] n = "BitcoinRegtest" -> S_regtest

\* os.path.join(plugin_dir, 'bwt'), the plugin directory left out
bwt_bin == S_bwt

(***************************************************************************)
(* BwtPlugin methods, as functions from world to world.                    *)
(***************************************************************************)
\* stop() that terminates the daemon and keeps the handle
stop_keeping_handle(st) ==
    IF st.self.proc # NoHandle
    THEN [st EXCEPT !.procs[st.self.proc].terminate = @ + 1]
    ELSE st

stop(st) ==
    IF st.self.proc # NoHandle
    THEN [st EXCEPT !.procs[st.self.proc].terminate = @ + 1,
                    !.self.proc = NoHandle,
                    !.self.thread = NoHandle]
    ELSE st

\* build_args whose verbosity loop runs once too often
build_args_extra_v(s, port, order) ==
    <<S_network, get_network_name(env.net),
      S_bitcoind_url, s.bitcoind_url,
      S_bitcoind_dir, s.bitcoind_dir,
      S_electrum_rpc_addr, S_loopback \o format_d(port)>>
    \o (IF s.bitcoind_cred # <<>> THEN <<S_bitcoind_cred, s.bitcoind_cred>> ELSE <<>>)
    \o (IF s.bitcoind_wallet # <<>> THEN <<S_bitcoind_wallet, s.bitcoind_wallet>> ELSE <<>>)
    \o (IF s.socket_path # <<>> THEN <<S_unix_listener_path, s.socket_path>> ELSE <<>>)
    \o Flatten([i \in 1..Len(order) |->
           Flatten([k \in 1..Len(get_master_public_keys(order[i])) |->
               <<S_xpub, get_master_public_keys(order[i])[k] \o <<":">> \o s.rescan_since>>])])
    \o [i \in 1..(s.verbose + 1) |-> S_v]
    \o (IF s.custom_opt # <<>> THEN split(s.custom_opt, <<" ">>) ELSE <<>>)

\* the argument vector start() builds; order is the order in which the
\* loop iterates over the set self.wallets
build_args(s, port, order) ==
    <<S_network, get_network_name(env.net),
      S_bitcoind_url, s.bitcoind_url,
      S_bitcoind_dir, s.bitcoind_dir,
      S_electrum_rpc_addr, S_loopback \o format_d(port)>>
    \o (IF s.bitcoind_cred # <<>> THEN <<S_bitcoind_cred, s.bitcoind_cred>> ELSE <<>>)
    \o (IF s.bitcoind_wallet # <<>> THEN <<S_bitcoind_wallet, s.bitcoind_wallet>> ELSE <<>>)
    \o (IF s.socket_path # <<>> THEN <<S_unix_listener_path, s.socket_path>> ELSE <<>>)
    \o Flatten([i \in 1..Len(order) |->
           Flatten([k \in 1..Len(get_master_public_keys(order[i])) |->
               <<S_xpub, get_master_public_keys(order[i])[k] \o <<":">> \o s.rescan_since>>])])
    \o [i \in 1..s.verbose |-> S_v]
    \o (IF s.custom_opt # <<>> THEN split(s.custom_opt, <<" ">>) ELSE <<>>)

\* start() without its call of stop()
start_without_stop(st, port, order) ==
    IF ~st.self.enabled \/ st.self.wallets = {}
    THEN st
    ELSE LET s1   == [st.self EXCEPT !.rpc_port = port]
             args == build_args(s1, port, order)
             pid  == Len(st.procs) + 1
             new  == [terminate |-> 0, stdout |-> <<>>, exited |-> FALSE,
                      logger |-> "running", handoffs |-> 0]
         IN  [st EXCEPT !.self = [s1 EXCEPT !.proc = pid, !.thread = pid],
                        !.procs = Append(@, new),
                        !.argv = <<bwt_bin>> \o args]

\* start() that only checks self.wallets
start_ignoring_enabled(st, port, order) ==
    IF st.self.wallets = {}
    THEN st
    ELSE LET s1   == [st.self EXCEPT !.rpc_port = port]
             args == build_args(s1, port, order)
             st2  == stop([st EXCEPT !.self = s1])
             pid  == Len(st2.procs) + 1
             new  == [terminate |-> 0, stdout |-> <<>>, exited |-> FALSE,
                      logger |-> "running", handoffs |-> 0]
         IN  [st2 EXCEPT !.procs = Append(@, new),
                         !.argv = <<bwt_bin>> \o args,
                         !.self.proc = pid,
                         !.self.thread = pid]

\* start() that only checks self.enabled
start_without_wallets_check(st, port, order) ==
    IF ~st.self.enabled
    THEN st
    ELSE LET s1   == [st.self EXCEPT !.rpc_port = port]
             args == build_args(s1, port, order)
             st2  == stop([st EXCEPT !.self = s1])
             pid  == Len(st2.procs) + 1
             new  == [terminate |-> 0, stdout |-> <<>>, exited |-> FALSE,
                      logger |-> "running", handoffs |-> 0]
         IN  [st2 EXCEPT !.procs = Append(@, new),
                         !.argv = <<bwt_bin>> \o args,
                         !.self.proc = pid,
                         !.self.thread = pid]

\* port is what free_port() returns
start(st, port, order) ==
    IF ~st.self.enabled \/ st.self.wallets = {}
    THEN st
    ELSE LET s1   == [st.self EXCEPT !.rpc_port = port]
             args == build_args(s1, port, order)
             st2  == stop([st EXCEPT !.self = s1])
             pid  == Len(st2.procs) + 1
             new  == [terminate |-> 0, stdout |-> <<>>, exited |-> FALSE,
                      logger |-> "running", handoffs |-> 0]
         IN  [st2 EXCEPT !.procs = Append(@, new),
                         !.argv = <<bwt_bin>> \o args,
                         !.self.proc = pid,
                         !.self.thread = pid]

\* load_wallet() without the check of get_master_public_keys()
load_wallet_unchecked(st, wallet, port, order) ==
    LET num_wallets == Cardinality(st.self.wallets)
        st1 == [st EXCEPT !.self.wallets = @ \cup {wallet}]
    IN  IF Cardinality(st1.self.wallets) # num_wallets
        THEN start(st1, port, order)
        ELSE st1

load_wallet(st, wallet, port, order) ==
    IF get_master_public_keys(wallet) # <<>>
    THEN LET num_wallets == Cardinality(st.self.wallets)
             st1 == [st EXCEPT !.self.wallets = @ \cup {wallet}]
         IN  IF Cardinality(st1.self.wallets) # num_wallets
             THEN start(st1, port, order)
             ELSE st1
    ELSE st

\* close_wallet() that never calls stop()
close_wallet_without_stop(st, wallet) ==
    [st EXCEPT !.self.wallets = @ \ {wallet}]

close_wallet(st, wallet) ==
    LET st1 == [st EXCEPT !.self.wallets = @ \ {wallet}]
    IN  IF st1.self.wallets = {} THEN stop(st1) ELSE st1

\* close() that tests the saved value for truth instead of for None
close_if_truthy(st) ==
    LET st1 == stop(st)
        was_oneserver == st1.config.bwt_was_oneserver
    IN  IF was_oneserver = "True"
        THEN [st1 EXCEPT !.config.oneserver = was_oneserver,
                         !.config.bwt_was_oneserver = None]
        ELSE st1

close(st) ==
    LET st1 == stop(st)
        was_oneserver == st1.config.bwt_was_oneserver
    IN  IF was_oneserver # None
        THEN [st1 EXCEPT !.config.oneserver = was_oneserver,
                         !.config.bwt_was_oneserver = None]
        ELSE st1

\* __init__ up to, and without, its call of start()
init(st) ==
    [st EXCEPT
        !.self = [proc |-> NoHandle, thread |-> NoHandle, rpc_port |-> NoHandle,
                  wallets |-> {},
                  enabled |-> st.config.bwt_enabled,
                  bitcoind_url |-> st.config.bwt_bitcoind_url,
                  bitcoind_dir |-> st.config.bwt_bitcoind_dir,
                  bitcoind_wallet |-> st.config.bwt_bitcoind_wallet,
                  bitcoind_cred |-> st.config.bwt_bitcoind_cred,
                  rescan_since |-> st.config.bwt_rescan_since,
                  custom_opt |-> st.config.bwt_custom_opt,
                  socket_path |-> st.config.bwt_socket_path,
                  verbose |-> st.config.bwt_verbose],
        !.config.bwt_was_oneserver =
            IF @ = None THEN st.config.oneserver ELSE @]

set_server(s, params) ==
    [params EXCEPT !.host = "127.0.0.1", !.port = s.rpc_port,
                   !.protocol = "t", !.oneserver = TRUE]

\* the network parameters after handle_log, and the number of times it
\* called set_server
handle_log(s, params, level, pkg, msg) ==
    IF startswith(msg, ReadyMarker)
    THEN [network |-> set_server(s, params), set_server_calls |-> 1]
    ELSE [network |-> params, set_server_calls |-> 0]

\* classify that tests the 'error: ' prefix without lower()
classify_case_sensitive(line) ==
    IF contains(line, <<":", ":">>) /\ contains(line, <<">">>)
    THEN LET level == partition(line, <<" ">>)[1]
             rest  == partition(line, <<" ">>)[3]
             pkg   == partition(rest, <<">">>)[1]
             msg   == partition(rest, <<">">>)[3]
         IN  <<level, strip(pkg), strip(msg)>>
    ELSE IF startswith(line, ErrorPrefix)
         THEN <<S_ERROR, S_bwt, SubSeq(line, 8, Len(line))>>
         ELSE <<S_INFO, S_bwt, line>>

\* the (level, pkg, msg) proc_logger passes to log_handler for a decoded,
\* stripped line
classify(line) ==
    IF contains(line, <<":", ":">>) /\ contains(line, <<">">>)
    THEN LET level == partition(line, <<" ">>)[1]
             rest  == partition(line, <<" ">>)[3]
             pkg   == partition(rest, <<">">>)[1]
             msg   == partition(rest, <<">">>)[3]
         IN  <<level, strip(pkg), strip(msg)>>
    ELSE IF startswith(lower(line), ErrorPrefix)
         THEN <<S_ERROR, S_bwt, SubSeq(line, 8, Len(line))>>
         ELSE <<S_INFO, S_bwt, line>>

(***************************************************************************)
(* Actions.                                                                *)
(***************************************************************************)
\* the record of a step: the operation, its wallet argument or the process
\* it belongs to, the log event it dispatched, and self.proc and
\* self.wallets as they were before the step
Op(name, wallet, pid, event) ==
    [op |-> name, wallet |-> wallet, pid |-> pid, event |-> event,
     had_proc |-> self.proc, had_wallets |-> self.wallets]

\* a host-thread operation took the world to st
Host(st) ==
    /\ Len(st.procs) <= MaxSpawns
    /\ self' = st.self
    /\ config' = st.config
    /\ procs' = st.procs
    /\ argv' = st.argv
    /\ UNCHANGED <<env, network, emitted>>

InitIn(settings) ==
    /\ constructed = FALSE
    /\ \E s \in settings : env = s.env /\ config = s.config
    /\ self = [proc |-> NoHandle, thread |-> NoHandle, rpc_port |-> NoHandle,
               wallets |-> {}, enabled |-> FALSE,
               bitcoind_url |-> <<>>, bitcoind_dir |-> <<>>, bitcoind_wallet |-> <<>>,
               bitcoind_cred |-> <<>>, rescan_since |-> <<>>, custom_opt |-> <<>>,
               socket_path |-> <<>>, verbose |-> 0]
    /\ procs = <<>>
    /\ argv = <<>>
    /\ network = [host |-> "electrum.example.org", port |-> 50002, protocol |-> "s",
                  oneserver |-> (config.oneserver = "True")]
    /\ emitted = 0
    /\ last = Op("new", "", 0, <<>>)

\* BwtPlugin(parent, config, name)
Construct ==
    /\ ~constructed
    /\ constructed' = TRUE
    /\ \E port \in env.free_ports : Host(start(init(World), port, <<>>))
    /\ last' = Op("__init__", "", 0, <<>>)

Start ==
    /\ constructed
    /\ \E port \in env.free_ports, order \in Orders(self.wallets) : Host(start(World, port, order))
    /\ last' = Op("start", "", 0, <<>>)
    /\ UNCHANGED constructed

Stop ==
    /\ constructed
    /\ Host(stop(World))
    /\ last' = Op("stop", "", 0, <<>>)
    /\ UNCHANGED constructed

LoadWallet(w) ==
    /\ constructed
    /\ \E port \in env.free_ports, order \in Orders(self.wallets \cup {w}) :
           Host(load_wallet(World, w, port, order))
    /\ last' = Op("load_wallet", w, 0, <<>>)
    /\ UNCHANGED constructed

CloseWallet(w) ==
    /\ constructed
    /\ Host(close_wallet(World, w))
    /\ last' = Op("close_wallet", w, 0, <<>>)
    /\ UNCHANGED constructed

Close ==
    /\ constructed
    /\ Host(close(World))
    /\ last' = Op("close", "", 0, <<>>)
    /\ UNCHANGED constructed

\* the daemon p writes a line to its stdout
WorkerWrite(p, line) ==
    /\ ~procs[p].exited
    /\ emitted < MaxLines
    /\ procs' = [procs EXCEPT ![p].stdout = Append(@, line)]
    /\ emitted' = emitted + 1
    /\ last' = Op("write", "", p, <<>>)
    /\ UNCHANGED <<constructed, env, config, self, argv, network>>

\* an exit of the daemon upon which the plugin drops the handle it holds
WorkerExit_dropping_handle(p) ==
    /\ ~procs[p].exited
    /\ procs' = [procs EXCEPT ![p].exited = TRUE]
    /\ self' = IF self.proc = p
               THEN [self EXCEPT !.proc = NoHandle, !.thread = NoHandle]
               ELSE self
    /\ last' = Op("exit", "", p, <<>>)
    /\ UNCHANGED <<constructed, env, config, argv, network, emitted>>

\* the daemon p exits (terminated or crashed): its stdout reaches end of file
WorkerExit(p) ==
    /\ ~procs[p].exited
    /\ procs' = [procs EXCEPT ![p].exited = TRUE]
    /\ last' = Op("exit", "", p, <<>>)
    /\ UNCHANGED <<constructed, env, config, self, argv, network, emitted>>

\* a proc_logger that clears self.thread when its loop ends
ProcLogger_clearing_thread(p) ==
    /\ procs[p].logger = "running"
    /\ IF procs[p].stdout # <<>>
       THEN LET raw == Head(procs[p].stdout)
            IN  IF ~decodable(raw)
                THEN /\ procs' = [procs EXCEPT ![p].stdout = Tail(@), ![p].logger = "failed"]
                     /\ last' = Op("proc_logger", "", p, <<>>)
                     /\ UNCHANGED <<network, self>>
                ELSE LET ev  == classify(strip(raw))
                         res == handle_log(self, network, ev[1], ev[2], ev[3])
                     IN  /\ network' = res.network
                         /\ procs' = [procs EXCEPT
                                ![p].stdout = Tail(@),
                                ![p].handoffs = @ + res.set_server_calls]
                         /\ last' = Op("proc_logger", "", p, ev)
                         /\ UNCHANGED self
       ELSE /\ procs[p].exited
            /\ procs' = [procs EXCEPT ![p].logger = "done"]
            /\ last' = Op("proc_logger", "", p, <<>>)
            /\ self' = [self EXCEPT !.thread = NoHandle]
            /\ UNCHANGED network
    /\ UNCHANGED <<constructed, env, config, argv, emitted>>

\* one iteration of the loop of proc_logger(procs[p], self.handle_log)
ProcLogger(p) ==
    /\ procs[p].logger = "running"
    /\ IF procs[p].stdout # <<>>
       THEN LET raw == Head(procs[p].stdout)
            IN  IF ~decodable(raw)
                THEN /\ procs' = [procs EXCEPT ![p].stdout = Tail(@), ![p].logger = "failed"]
                     /\ last' = Op("proc_logger", "", p, <<>>)
                     /\ UNCHANGED network
                ELSE LET ev  == classify(strip(raw))
                         res == handle_log(self, network, ev[1], ev[2], ev[3])
                     IN  /\ network' = res.network
                         /\ procs' = [procs EXCEPT
                                ![p].stdout = Tail(@),
                                ![p].handoffs = @ + res.set_server_calls]
                         /\ last' = Op("proc_logger", "", p, ev)
       ELSE /\ procs[p].exited
            /\ procs' = [procs EXCEPT ![p].logger = "done"]
            /\ last' = Op("proc_logger", "", p, <<>>)
            /\ UNCHANGED network
    /\ UNCHANGED <<constructed, env, config, self, argv, emitted>>

Init == InitIn(Environments)

InitHost == InitIn(HostEnvironments)

NextHost ==
    \/ Construct
    \/ Start
    \/ Stop
    \/ \E w \in env.wallet_files : LoadWallet(w)
    \/ \E w \in env.wallet_files : CloseWallet(w)
    \/ Close

Next ==
    \/ Construct
    \/ Start
    \/ Stop
    \/ \E w \in env.wallet_files : LoadWallet(w)
    \/ \E w \in env.wallet_files : CloseWallet(w)
    \/ Close
    \/ \E p \in 1..Len(procs), line \in env.daemon_lines : WorkerWrite(p, line)
    \/ \E p \in 1..Len(procs) : WorkerExit(p)
    \/ \E p \in 1..Len(procs) : ProcLogger(p)

Spec == Init /\ [][Next]_vars

InitParse == InitIn(ParseEnvironments)

\* one daemon is started; it prints, exits, and its log thread reads
NextParse ==
    \/ Construct
    \/ \E w \in env.wallet_files : LoadWallet(w)
    \/ \E p \in 1..Len(procs), line \in env.daemon_lines : WorkerWrite(p, line)
    \/ \E p \in 1..Len(procs) : WorkerExit(p)
    \/ \E p \in 1..Len(procs) : ProcLogger(p)

SpecParse == InitParse /\ [][NextParse]_vars

SpecHost == InitHost /\ [][NextHost]_vars

(***************************************************************************)
(* Properties.                                                             *)
(***************************************************************************)
Pids == 1..Len(procs)

\* the spawned daemons whose termination has not been requested
Unterminated == {p \in Pids : procs[p].terminate = 0}

\* C1: at most one spawned daemon has not been asked to terminate, and it
\* is the one self.proc holds: start() has asked the daemon it replaces to
\* terminate by the time the new one exists.
C1_AtMostOneUnterminated ==
    /\ Cardinality(Unterminated) <= 1
    /\ \A p \in Unterminated : p = self.proc
    /\ self.proc \in {NoHandle} \cup Pids

\* start() replaced a running daemon
C1_Witness ==
    /\ last.op = "start"
    /\ last.had_proc = 1
    /\ self.proc = 2
    /\ procs[1].terminate = 1
    /\ procs[2].terminate = 0

\* C2: a readiness line of a daemon that has been replaced by a newer one,
\* read by its log thread after the newer daemon was started, is ignored:
\* set_server is not called for it and the network parameters stay as they are.
C2_StaleReadinessIgnored ==
    [][\A p \in Pids :
          (ProcLogger(p) /\ p < Len(procs))
              => /\ network' = network
                 /\ procs'[p].handoffs = procs[p].handoffs]_vars

\* C3: for each spawned daemon, set_server is called at most once, however
\* many of its lines start with the readiness marker.
C3_HandoffAtMostOncePerDaemon ==
    \A p \in Pids : procs[p].handoffs <= 1

\* the step is a call of the host-thread operation name (every action
\* records its name in last), with wallet argument w
Called(name) == last'.op = name

CalledWith(name, w) == last'.op = name /\ last'.wallet = w

\* the key roots of a set of wallets
Roots(ws) ==
    UNION {{get_master_public_keys(w)[k] : k \in 1..Len(get_master_public_keys(w))} : w \in ws}

\* the step stopped the daemon self.proc held, if any, and spawned a new one
Restarted ==
    /\ Len(procs') = Len(procs) + 1
    /\ self'.proc = Len(procs')
    /\ self.proc # NoHandle => procs'[self.proc].terminate = procs[self.proc].terminate + 1

\* the step spawned nothing, asked no daemon to terminate and kept the handle
WorkerUntouched ==
    /\ self'.proc = self.proc
    /\ self'.thread = self.thread
    /\ Len(procs') = Len(procs)
    /\ \A p \in Pids : procs'[p].terminate = procs[p].terminate

\* C4: with the feature enabled, load_wallet of a wallet that has master
\* public keys restarts the daemon if and only if a root of the wallet was
\* not yet among the roots of the loaded wallets; when its roots are all
\* there already, the roots and the running daemon stay as they are.
C4_RestartIffNewRoot ==
    [][\A w \in env.wallet_files :
          (CalledWith("load_wallet", w) /\ self.enabled /\ get_master_public_keys(w) # <<>>)
              => LET present == Roots({w}) \subseteq Roots(self.wallets)
                 IN  /\ Restarted <=> ~present
                     /\ present => (Roots(self'.wallets) = Roots(self.wallets) /\ WorkerUntouched)]_vars

\* C5: close_wallet of the last loaded wallet stops the daemon and starts
\* none: no handle is held afterwards, the daemon that was held has been
\* asked to terminate, nothing was spawned.
C5_CloseLastWalletStops ==
    [][\A w \in env.wallet_files :
          (CalledWith("close_wallet", w) /\ self.wallets = {w})
              => /\ self'.wallets = {}
                 /\ self'.proc = NoHandle
                 /\ Len(procs') = Len(procs)
                 /\ self.proc # NoHandle =>
                        procs'[self.proc].terminate = procs[self.proc].terminate + 1]_vars

\* close_wallet removed the only wallet while a daemon was running
C5_Witness ==
    /\ last.op = "close_wallet"
    /\ last.had_wallets = {last.wallet}
    /\ last.had_proc # NoHandle
    /\ self.wallets = {}
    /\ self.proc = NoHandle
    /\ procs[last.had_proc].terminate = 1
    /\ Len(procs) = last.had_proc

\* C6: start() with the feature disabled or without a loaded wallet changes
\* nothing: no port is chosen, nothing is spawned, nothing is terminated;
\* the start() at the end of __init__ is such a call.
C6_StartNoOp ==
    [][/\ (Called("start") /\ (~self.enabled \/ self.wallets = {}))
           => UNCHANGED <<self, config, procs, argv, network>>
       /\ Construct
           => /\ procs' = procs
              /\ argv' = argv
              /\ self'.proc = NoHandle
              /\ self'.rpc_port = NoHandle
              /\ self'.wallets = {}]_vars

\* start() was called with the feature enabled and no wallet loaded, after a
\* daemon had been running
C6_Witness ==
    /\ last.op = "start"
    /\ self.enabled
    /\ last.had_wallets = {}
    /\ last.had_proc = NoHandle
    /\ self.proc = NoHandle
    /\ Len(procs) = 1

\* C7: close() stops the daemon, and when bwt_was_oneserver holds a saved
\* value (False included) it writes that value to oneserver and sets
\* bwt_was_oneserver to None.
C7_CloseRestoresOneserver ==
    [][Close
          => /\ self'.proc = NoHandle
             /\ self.proc # NoHandle =>
                    procs'[self.proc].terminate = procs[self.proc].terminate + 1
             /\ config.bwt_was_oneserver # None =>
                    /\ config'.oneserver = config.bwt_was_oneserver
                    /\ config'.bwt_was_oneserver = None]_vars

\* close() ran with a daemon running and restored a saved False
C7_Witness ==
    /\ last.op = "close"
    /\ last.had_proc # NoHandle
    /\ procs[last.had_proc].terminate = 1
    /\ self.proc = NoHandle
    /\ config.oneserver = "False"
    /\ config.bwt_was_oneserver = None

\* the world after the step
WorldAfter == [self |-> self', config |-> config', procs |-> procs', argv |-> argv']

\* C8: stop() with a handle asks that daemon to terminate once and drops
\* self.proc and self.thread; without a handle it changes nothing; a second
\* stop() after any stop() changes nothing.
C8_StopIdempotent ==
    [][Stop
          => /\ self.proc # NoHandle =>
                    /\ procs' = [procs EXCEPT ![self.proc].terminate = @ + 1]
                    /\ self' = [self EXCEPT !.proc = NoHandle, !.thread = NoHandle]
             /\ self.proc = NoHandle => UNCHANGED <<self, procs>>
             /\ UNCHANGED <<config, argv, network>>
             /\ stop(WorldAfter) = WorldAfter]_vars

\* stop() ran with a daemon running
C8_Witness ==
    /\ last.op = "stop"
    /\ last.had_proc # NoHandle
    /\ self.proc = NoHandle
    /\ self.thread = NoHandle
    /\ procs[last.had_proc].terminate = 1

\* C9: load_wallet of a wallet without master public keys changes nothing:
\* the set of wallets, the daemon and the loaded wallets stay as they are.
C9_UnsupportedWalletRejected ==
    [][\A w \in env.wallet_files :
          (CalledWith("load_wallet", w) /\ get_master_public_keys(w) = <<>>)
              => UNCHANGED <<self, config, procs, argv, network>>]_vars

\* load_wallet of the keyless wallet w4 ran with a wallet loaded and a
\* daemon running
C9_Witness ==
    /\ last.op = "load_wallet"
    /\ get_master_public_keys(last.wallet) = <<>>
    /\ self.wallets # {}
    /\ self.proc # NoHandle
    /\ procs[self.proc].terminate = 0

\* the positions of the '--xpub' flags in an argument vector
XpubFlags(a) == {i \in 1..(Len(a) - 1) : a[i] = S_xpub}

\* C10: the argument vector start() builds has as many '--xpub' flags as
\* the loaded wallets have distinct roots, each flag is <root>:<rescan_since>
\* and each root is in exactly one flag.
C10_OneFlagPerRoot ==
    [][Len(procs') > Len(procs)
          => LET S == Roots(self'.wallets)
                 a == argv'
             IN  /\ Cardinality(XpubFlags(a)) = Cardinality(S)
                 /\ \A i \in XpubFlags(a) :
                        \E r \in S : a[i + 1] = r \o <<":">> \o self'.rescan_since
                 /\ \A r \in S :
                        Cardinality({i \in XpubFlags(a) :
                            a[i + 1] = r \o <<":">> \o self'.rescan_since}) = 1]_vars

\* the number of tokens of an argument vector that are equal to tok
CountOf(a, tok) == Cardinality({i \in 1..Len(a) : a[i] = tok})

Reads(p, raw) ==
    /\ ProcLogger(p)
    /\ procs[p].stdout # <<>>
    /\ Head(procs[p].stdout) = raw

\* C12: a line '<level> <timestamp> <source> > <message>' is dispatched
\* with the level token as level, the source without the timestamp as
\* source and the text after the first '>' as message, all stripped.
C12_StructuredLineFields ==
    [][\A p \in Pids : \A r \in StructuredParts :
          Reads(p, FormatStructured(r))
              => last'.event = <<r.level, r.source, strip(r.message)>>]_vars

\* 'failed to connect'
FailedToConnect ==
    <<"f","a","i","l","e","d"," ","t","o"," ","c","o","n","n","e","c","t">>

\* the line is not one of the structured rule: it lacks '::' or '>'
Unstructured(line) == ~(contains(line, <<":", ":">>) /\ contains(line, <<">">>))

\* C13: a line outside the structured rule whose lowercase form starts
\* with 'error: ' is dispatched as ERROR, 'bwt', the line without its first
\* 7 characters ('Error: failed to connect' gives 'failed to connect');
\* any other line outside the structured rule as INFO, 'bwt', the line.
C13_ErrorAndInfoLines ==
    [][\A p \in Pids : \A raw \in env.daemon_lines :
          (Reads(p, raw) /\ decodable(raw) /\ Unstructured(strip(raw)))
              => LET line == strip(raw)
                 IN  /\ startswith(lower(line), ErrorPrefix)
                            => last'.event = <<S_ERROR, S_bwt, SubSeq(line, 8, Len(line))>>
                     /\ ~startswith(lower(line), ErrorPrefix)
                            => last'.event = <<S_INFO, S_bwt, line>>
                     /\ raw = LineError
                            => last'.event = <<S_ERROR, S_bwt, FailedToConnect>>
                     /\ raw = LinePlain
                            => last'.event[1] = S_INFO]_vars

\* the log thread dispatched 'Error: failed to connect'
C13_Witness ==
    /\ last.op = "proc_logger"
    /\ last.event = <<S_ERROR, S_bwt, FailedToConnect>>

\* C14: a blank line read by the log thread is ignored: nothing is
\* dispatched to the handler for it, and the loop goes on.
C14_BlankLineIgnored ==
    [][\A p \in Pids :
          Reads(p, LineBlank)
              => /\ last'.event = <<>>
                 /\ procs'[p].logger = "running"]_vars

\* the operations of the host thread that may write the handle, the thread,
\* the port and the set of wallets
HostOps == {"start", "stop", "load_wallet", "close_wallet", "close"}

\* C15: the log thread never writes the plugin's state: self.proc,
\* self.thread, self.rpc_port and self.wallets change only in steps of start,
\* stop, load_wallet, close_wallet and close; a step of the log thread leaves
\* the plugin's fields, the configuration and the argument vector alone and
\* spawns nothing.
C15_LogThreadWritesNoPluginState ==
    [][/\ (\/ self'.proc # self.proc
           \/ self'.thread # self.thread
           \/ self'.rpc_port # self.rpc_port
           \/ self'.wallets # self.wallets) => last'.op \in HostOps
       /\ Called("proc_logger")
              => /\ self' = self
                 /\ config' = config
                 /\ argv' = argv
                 /\ Len(procs') = Len(procs)]_vars

\* the log thread of the daemon the plugin holds has just made the handoff
C15_Witness ==
    /\ last.op = "proc_logger"
    /\ last.event # <<>>
    /\ startswith(last.event[3], ReadyMarker)
    /\ self.proc = last.pid
    /\ procs[last.pid].handoffs >= 1
    /\ network.port = self.rpc_port

\* C16: when the daemon exits without having been asked to terminate, and
\* when its log thread then reads the end of its stdout, the plugin's state
\* (handle, port, wallets) stays as it is and nothing is spawned; a daemon is
\* spawned only in a step of start or load_wallet.
C16_CrashLeavesStateAsIs ==
    [][/\ \A p \in Pids :
              (/\ procs[p].terminate = 0
               /\ \/ WorkerExit(p)
                  \/ ProcLogger(p) /\ procs[p].stdout = <<>>)
                  => /\ self'.proc = self.proc
                     /\ self'.rpc_port = self.rpc_port
                     /\ self'.wallets = self.wallets
                     /\ Len(procs') = Len(procs)
                     /\ \A q \in Pids : procs'[q].terminate = procs[q].terminate
       /\ Len(procs') > Len(procs) => last'.op \in {"start", "load_wallet"}]_vars

\* the daemon the plugin holds has crashed, its log thread has ended, and the
\* plugin still holds it
C16_Witness ==
    /\ self.proc # NoHandle
    /\ procs[self.proc].exited
    /\ procs[self.proc].terminate = 0
    /\ procs[self.proc].logger = "done"
    /\ last.op = "proc_logger"
    /\ last.pid = self.proc

\* the roots of the '--xpub' arguments of an argument vector
LaunchedRoots(a) == {partition(a[i + 1], <<":">>)[1] : i \in XpubFlags(a)}

\* C17: whenever the plugin holds a daemon, the roots the daemon was
\* launched with are the roots of the loaded wallets.
C17_LaunchedRootsInSync ==
    self.proc # NoHandle => LaunchedRoots(argv) = Roots(self.wallets)

\* C18: while the plugin holds no daemon, a step of a log thread does not
\* change the network parameters and makes no handoff.
C18_NoHandoffWithoutHandle ==
    [][\A p \in Pids :
          (ProcLogger(p) /\ self.proc = NoHandle)
              => /\ network' = network
                 /\ procs'[p].handoffs = procs[p].handoffs]_vars

\* C19: if the plugin holds a daemon then the feature is enabled and some
\* wallet is loaded.
C19_HandleImpliesEnabledAndWallets ==
    self.proc # NoHandle => (self.enabled /\ self.wallets # {})

\* a daemon is still held after close_wallet of a wallet that was not the
\* last one
C19_Witness ==
    /\ last.op = "close_wallet"
    /\ last.had_proc # NoHandle
    /\ self.proc = last.had_proc
    /\ self.enabled
    /\ self.wallets # {}

====
